---- MODULE Spec2Model ----
(***************************************************************************)
(* strsearch.c: a static hash index over the lines of a dictionary file.   *)
(* main() maps the file, counts its lines, chains every newline-ended line *)
(* into a bucket (htable_insert), compacts the chains into cclist, and     *)
(* then answers one request per line of standard input (htable_lookup).    *)
(*                                                                         *)
(* Bytes are integers 0..255; a C string or a byte run is a sequence of    *)
(* bytes.  C offsets are 0-based: byte fpos of dict is dict[fpos + 1].     *)
(***************************************************************************)
EXTENDS Integers, Sequences, FiniteSets, TLC

\* ---------------------------------------------------------------- bounds
\* Longest dictionary file explored, in bytes.
MaxBytes == 4
\* Most request lines standard input delivers before it is exhausted.
MaxReqs == 2

\* ------------------------------------------------------------- constants
\* '\n', the line terminator (dict[i] == '\n').
NL == 10
\* Seed of the string hash.
HashSeed == 5381
\* 2^16: the 32-bit hash is kept as two 16-bit limbs <<hi, lo>>, so that
\* uint32_t wrap-around is computed exactly without leaving TLC's integers.
Limb == 65536

\* Bytes the explored dictionaries are made of: 'a', 'b', '\n'.
Alphabet == {97, 98, NL}
\* "exit\n", the command that leaves the request loop.
ExitCmd == <<101, 120, 105, 116, NL>>

\* Values an uninitialised uint32_t field of the malloc'ed cclist may hold.
\* (0 is what a fresh zero page gives; 1 stands for any other content.)
GarbageWords == {0, 1}
\* Contents the malloc'ed, never written req_buf may hold as a C string.
GarbageBufs == {<<>>, <<97, NL>>}

\* All byte strings over S with length in 0..n.
Strs(S, n) == UNION {[1..k -> S] : k \in 0..n}

VARIABLES
    pc,              \* position of main()
    dict,            \* the dictionary file's bytes (mmap'ed, read-only)
    num_of_bytes, num_of_lines, num_of_buckets,
    htable,          \* htable[b].ptr for b in 0..num_of_buckets
    clist,           \* written nodes of the collision list, by node index
    clist_size,      \* next free node index (starts at 1; 0 ends a chain)
    cclist,          \* compacted (fpos, len) array, slots 0..num_of_lines
    clines,          \* write cursor of the compaction pass
    i,               \* loop index of main()'s for loops
    prev_start,      \* start of the line being scanned by the insertion pass
    ptr,             \* chain cursor of the compaction pass
    req_buf,         \* the request buffer, as a C string
    eof,             \* feof(stdin)
    reads,           \* history: the lines fgets has delivered, in order
    out,             \* history: the answers printed, in order
    broke            \* history: the loop was left by the break statement

vars == <<pc, dict, num_of_bytes, num_of_lines, num_of_buckets, htable, clist,
          clist_size, cclist, clines, i, prev_start, ptr, req_buf, eof,
          reads, out, broke>>

buildVars == <<num_of_bytes, num_of_lines, num_of_buckets, htable, clist,
               clist_size, cclist, clines, i, prev_start, ptr>>
loopVars == <<req_buf, eof, reads, out, broke>>

\* ------------------------------------------------------------------ hash
\* (char) -> int: char is signed, bytes >= 128 are negative.
SignedChar(b) == IF b >= 128 THEN b - 256 ELSE b

\* One round of  hash = ((hash << 5) + hash) + (s[i] - 32)  on uint32_t,
\* on the limbs h = <<hi, lo>>.
HashRound(h, b) ==
    LET t  == h[2] * 33 + (SignedChar(b) - 32)
        lo == t % Limb
        cy == (t - lo) \div Limb
    IN  <<(h[1] * 33 + cy) % Limb, lo>>

RECURSIVE HashFold(_, _, _)
HashFold(h, s, k) ==
    IF k > Len(s) THEN h ELSE HashFold(HashRound(h, s[k]), s, k + 1)

\* hash % n for the limbs of hash, n > 0.
ModLimbs(h, n) == ((h[1] % n) * (Limb % n) + (h[2] % n)) % n

\* hash(s, len) with s given as the len bytes it points to.
hash(s) ==
    ModLimbs(HashFold(<<HashSeed \div Limb, HashSeed % Limb>>, s, 1),
             num_of_buckets)

\* ------------------------------------------------------------ dictionary
\* dict[p] in C; the bytes between the end of the file and the end of its
\* last page read as 0 in a file mapping.
DictAt(p) == IF p < Len(dict) THEN dict[p + 1] ELSE 0

\* The len bytes at dict + fpos.
DictRun(fpos, len) == [k \in 1..len |-> DictAt(fpos + k - 1)]

\* memcmp(s, dict + fpos, len) == 0
memcmp0(s, fpos, len) == \A k \in 1..len : s[k] = DictAt(fpos + k - 1)

\* ---------------------------------------------------------------- lookup
\* The cclist positions htable_lookup(s, len) reads: the for loop runs
\* from htable[h].ptr up to htable[h + 1].ptr and returns at the first hit.
Hit(s, p) == Len(s) = cclist[p].len /\ memcmp0(s, cclist[p].fpos, Len(s))

ScannedSlots(s) ==
    LET h == hash(s)
    IN  {p \in htable[h]..(htable[h + 1] - 1) :
            \A q \in htable[h]..(p - 1) : ~Hit(s, q)}

htable_lookup(s) == \E p \in ScannedSlots(s) : Hit(s, p)

\* ------------------------------------------------------------------ main
Init ==
    /\ pc = "start"
    /\ dict \in Strs(Alphabet, MaxBytes)
    /\ num_of_bytes = 0 /\ num_of_lines = 0 /\ num_of_buckets = 0
    /\ htable = <<>> /\ clist = <<>> /\ cclist = <<>>
    /\ clist_size = 1
    /\ clines = 0 /\ i = 0 /\ prev_start = 0 /\ ptr = 0
    /\ req_buf = <<>> /\ eof = FALSE
    /\ reads = <<>> /\ out = <<>> /\ broke = FALSE

\* fstat + mmap.  mmap of a zero-length file fails (EINVAL) and main
\* returns 1 before any index is built.
MapDict ==
    /\ pc = "start"
    /\ num_of_bytes' = Len(dict)
    /\ pc' = IF Len(dict) = 0 THEN "exit1" ELSE "count"
    /\ UNCHANGED <<dict, num_of_lines, num_of_buckets, htable, clist,
                   clist_size, cclist, clines, i, prev_start, ptr>>
    /\ UNCHANGED loopVars

\* Number of '\n' bytes in dict.
Newlines == Cardinality({k \in 1..Len(dict) : dict[k] = NL})

\* The counting loop, num_of_lines++, and the two allocations: htable is
\* calloc'ed (all zero); clist is malloc'ed and holds no written node yet.
CountLines ==
    /\ pc = "count"
    /\ num_of_lines' = num_of_lines + Newlines + 1
    /\ num_of_buckets' = num_of_lines'
    /\ htable' = [b \in 0..num_of_buckets' |-> 0]
    /\ clist' = <<>>
    /\ prev_start' = 0
    /\ i' = 0
    /\ pc' = "insert"
    /\ UNCHANGED <<dict, num_of_bytes, clist_size, cclist, clines, ptr>>
    /\ UNCHANGED loopVars

\* htable_insert with the chain link lost: the new node does not point to
\* the old head of its bucket.
htable_insert_nolink(fpos, len) ==
    LET h == hash(DictRun(fpos, len))
    IN  /\ clist' = clist @@ (clist_size :>
                        [fpos |-> fpos, len |-> len, prev |-> 0])
        /\ htable' = [htable EXCEPT ![h] = clist_size]
        /\ clist_size' = clist_size + 1

\* htable_insert(fpos, len): prepend node clist_size to its bucket's chain.
htable_insert(fpos, len) ==
    LET h == hash(DictRun(fpos, len))
    IN  /\ clist' = clist @@ (clist_size :>
                        [fpos |-> fpos, len |-> len, prev |-> htable[h]])
        /\ htable' = [htable EXCEPT ![h] = clist_size]
        /\ clist_size' = clist_size + 1

\* One iteration of the insertion loop.
InsertStep ==
    /\ pc = "insert"
    /\ i < num_of_bytes
    /\ IF dict[i + 1] = NL
         THEN /\ htable_insert(prev_start, i - prev_start + 1)
              /\ prev_start' = i + 1
         ELSE UNCHANGED <<htable, clist, clist_size, prev_start>>
    /\ i' = i + 1
    /\ UNCHANGED <<pc, dict, num_of_bytes, num_of_lines, num_of_buckets,
                   cclist, clines, ptr>>
    /\ UNCHANGED loopVars

\* End of the insertion loop; htable[num_of_buckets].ptr = num_of_lines;
\* cclist is malloc'ed (every slot holds whatever the memory held).
CompactInit ==
    /\ pc = "insert"
    /\ i = num_of_bytes
    /\ htable' = [htable EXCEPT ![num_of_buckets] = num_of_lines]
    /\ \E gf \in GarbageWords, gl \in GarbageWords :
          cclist' = [p \in 0..num_of_lines |-> [fpos |-> gf, len |-> gl]]
    /\ clines' = 0
    /\ i' = 0
    /\ pc' = "compact"
    /\ UNCHANGED <<dict, num_of_bytes, num_of_lines, num_of_buckets, clist,
                   clist_size, prev_start, ptr>>
    /\ UNCHANGED loopVars

\* The head of the compaction loop body without  htable[i].ptr = clines:
\* the bucket keeps its chain head as its range start.
CompactBucketKeepHead ==
    /\ pc = "compact"
    /\ i < num_of_buckets
    /\ ptr' = htable[i]
    /\ pc' = "walk"
    /\ UNCHANGED <<dict, num_of_bytes, num_of_lines, num_of_buckets, htable,
                   clist, clist_size, cclist, clines, i, prev_start>>
    /\ UNCHANGED loopVars

\* Head of the compaction loop body for bucket i.
CompactBucket ==
    /\ pc = "compact"
    /\ i < num_of_buckets
    /\ ptr' = htable[i]
    /\ htable' = [htable EXCEPT ![i] = clines]
    /\ pc' = "walk"
    /\ UNCHANGED <<dict, num_of_bytes, num_of_lines, num_of_buckets, clist,
                   clist_size, cclist, clines, i, prev_start>>
    /\ UNCHANGED loopVars

\* One iteration of  while (ptr) { ... }.
CompactCopy ==
    /\ pc = "walk"
    /\ ptr # 0
    /\ cclist' = [cclist EXCEPT ![clines] =
                     [fpos |-> clist[ptr].fpos, len |-> clist[ptr].len]]
    /\ ptr' = clist[ptr].prev
    /\ clines' = clines + 1
    /\ UNCHANGED <<pc, dict, num_of_bytes, num_of_lines, num_of_buckets,
                   htable, clist, clist_size, i, prev_start>>
    /\ UNCHANGED loopVars

\* The chain is exhausted: next bucket.
CompactNext ==
    /\ pc = "walk"
    /\ ptr = 0
    /\ i' = i + 1
    /\ pc' = "compact"
    /\ UNCHANGED <<dict, num_of_bytes, num_of_lines, num_of_buckets, htable,
                   clist, clist_size, cclist, clines, prev_start, ptr>>
    /\ UNCHANGED loopVars

\* End of the compaction loop; free(clist); req_buf = malloc(...).
CompactDone ==
    /\ pc = "compact"
    /\ i = num_of_buckets
    /\ clist' = <<>>
    /\ req_buf' \in GarbageBufs
    /\ pc' = "loop"
    /\ UNCHANGED <<dict, num_of_bytes, num_of_lines, num_of_buckets, htable,
                   clist_size, cclist, clines, i, prev_start, ptr>>
    /\ UNCHANGED <<eof, reads, out, broke>>

\* ---------------------------------------------------------- request loop
\* Request lines standard input may hold: a body and its '\n' ...
ReqBodies == Strs(Alphabet \ {NL}, 1) \cup {<<101, 120>>, <<101, 120, 105, 116>>}
FullLines == {b \o <<NL>> : b \in ReqBodies}
\* ... or, as the last line only, a non-empty body that end-of-file cuts.
PartLines == ReqBodies \ {<<>>}

\* while (!feof(stdin)) { fgets(req_buf, ...); len = strlen(req_buf);
\* fgets either delivers a whole line, or delivers the unterminated rest of
\* the input and sets the end-of-file indicator, or finds nothing left:
\* then it sets the indicator, returns NULL and leaves req_buf as it was.
\* Its return value is not looked at.
ReadRequest ==
    /\ pc = "loop"
    /\ ~eof
    /\ \/ /\ Len(reads) < MaxReqs
          /\ \E l \in FullLines :
                req_buf' = l /\ reads' = Append(reads, l) /\ eof' = FALSE
       \/ /\ Len(reads) < MaxReqs
          /\ \E l \in PartLines :
                req_buf' = l /\ reads' = Append(reads, l) /\ eof' = TRUE
       \/ /\ eof' = TRUE
          /\ UNCHANGED <<req_buf, reads>>
    /\ pc' = "check"
    /\ UNCHANGED <<dict, out, broke>>
    /\ UNCHANGED buildVars

\* strncmp(req_buf, "exit\n", strlen(req_buf)) == 0: the first
\* strlen(req_buf) bytes agree, i.e. req_buf is a prefix of "exit\n".
IsExit(s) ==
    /\ Len(s) <= Len(ExitCmd)
    /\ \A k \in 1..Len(s) : s[k] = ExitCmd[k]

\* if (!strncmp(...)) break;
BreakOnExit ==
    /\ pc = "check"
    /\ IsExit(req_buf)
    /\ broke' = TRUE
    /\ pc' = "cleanup"
    /\ UNCHANGED <<dict, req_buf, eof, reads, out>>
    /\ UNCHANGED buildVars

\* A lookup that scans with htable[h].ptr itself instead of a local copy:
\* the bucket's start is left at the hit, or at the end of the range.
RespondAdvancing ==
    /\ pc = "check"
    /\ ~IsExit(req_buf)
    /\ out' = Append(out, [req |-> req_buf, yes |-> htable_lookup(req_buf)])
    /\ LET h    == hash(req_buf)
           hits == {p \in ScannedSlots(req_buf) : Hit(req_buf, p)}
       IN  htable' = [htable EXCEPT ![h] =
                         IF hits = {} THEN htable[h + 1]
                         ELSE CHOOSE p \in hits : TRUE]
    /\ pc' = "loop"
    /\ UNCHANGED <<dict, req_buf, eof, reads, broke>>
    /\ UNCHANGED <<num_of_bytes, num_of_lines, num_of_buckets, clist,
                   clist_size, cclist, clines, i, prev_start, ptr>>

\* printf("%s: %s\n", req_buf, htable_lookup(req_buf, len) ? "YES" : "NO");
Respond ==
    /\ pc = "check"
    /\ ~IsExit(req_buf)
    /\ out' = Append(out, [req |-> req_buf, yes |-> htable_lookup(req_buf)])
    /\ pc' = "loop"
    /\ UNCHANGED <<dict, req_buf, eof, reads, broke>>
    /\ UNCHANGED buildVars

\* The loop condition fails: feof(stdin).
LoopEnd ==
    /\ pc = "loop"
    /\ eof
    /\ pc' = "cleanup"
    /\ UNCHANGED <<dict, req_buf, eof, reads, out, broke>>
    /\ UNCHANGED buildVars

\* free(req_buf); free(htable); free(cclist); munmap; close; return 0.
Cleanup ==
    /\ pc = "cleanup"
    /\ htable' = <<>> /\ cclist' = <<>> /\ req_buf' = <<>>
    /\ pc' = "exit0"
    /\ UNCHANGED <<dict, num_of_bytes, num_of_lines, num_of_buckets, clist,
                   clist_size, clines, i, prev_start, ptr>>
    /\ UNCHANGED <<eof, reads, out, broke>>

Next ==
    \/ MapDict
    \/ CountLines
    \/ InsertStep
    \/ CompactInit
    \/ CompactBucket
    \/ CompactCopy
    \/ CompactNext
    \/ CompactDone
    \/ ReadRequest
    \/ BreakOnExit
    \/ Respond
    \/ LoopEnd
    \/ Cleanup

Spec == Init /\ [][Next]_vars

\* ------------------------------------------------- the dictionary's lines
\* The index is built and not yet freed.
Built == pc \in {"loop", "check", "cleanup"}

\* Offsets at which a line starts: 0, and the byte after every '\n'.
LineStarts == {0} \cup {k \in 1..Len(dict) : dict[k] = NL}

\* Offsets of the '\n' bytes at or after offset s.
NLsFrom(s) == {k \in s..(Len(dict) - 1) : dict[k + 1] = NL}

\* Smallest element of a non-empty set of integers.
MinOf(S) == CHOOSE x \in S : \A y \in S : x <= y

\* The lines that end in a terminator, as (offset, length) with the
\* terminator counted in the length.
TermLines ==
    {[fpos |-> s, len |-> MinOf(NLsFrom(s)) - s + 1] :
        s \in {t \in LineStarts : NLsFrom(t) # {}}}

\* The trailing run after the last terminator (empty when the buffer ends
\* in a terminator, the whole buffer when it holds none).
TrailLine ==
    LET s == CHOOSE t \in LineStarts : NLsFrom(t) = {}
    IN  [fpos |-> s, len |-> Len(dict) - s]

\* The lines as the enumerator counts them: terminators seen + 1.
Lines == TermLines \cup {TrailLine}

Bytes(L) == DictRun(L.fpos, L.len)

\* The queries the claims are tried on.
Queries == Strs(Alphabet, MaxBytes)

\* The slots of bucket b's range that the compaction pass wrote.
WrittenIn(b) == {p \in htable[b]..(htable[b + 1] - 1) : p < clines}

\* ---------------------------------------------------------------- claims

\* C1 (as stated): once the build has finished, Contains returns true for
\* every line the enumerator counts, the trailing run included.
C1_Completeness ==
    Built => \A L \in Lines : htable_lookup(Bytes(L))

\* C2 (as stated): once the build has finished, Contains returns false for
\* every query that is not, in length and content, a line of the buffer.
C2_Soundness ==
    Built => \A q \in Queries :
                (\A L \in Lines : Bytes(L) # q) => ~htable_lookup(q)

\* C3 (as stated): after compaction the positions below
\* htable[num_of_buckets] hold every line exactly once and nothing else.
C3_EntriesAreTheLines ==
    Built =>
      LET top == htable[num_of_buckets]
      IN  /\ \A L \in Lines :
                Cardinality({p \in 0..(top - 1) : cclist[p] = L}) = 1
          /\ \A p \in 0..(top - 1) : cclist[p] \in Lines

RECURSIVE SumRanges(_)
SumRanges(b) ==
    IF b < 0 THEN 0 ELSE (htable[b + 1] - htable[b]) + SumRanges(b - 1)

\* C4 (as stated): when compaction finishes, htable[num_of_buckets] equals
\* the write cursor, which equals the line count, which equals the sum of
\* the bucket range lengths.
C4_CountConservation ==
    Built => /\ htable[num_of_buckets] = clines
             /\ clines = Cardinality(Lines)
             /\ Cardinality(Lines) = SumRanges(num_of_buckets - 1)

\* C5 (as stated): a buffer without terminator is built into one bucket
\* and exactly one entry, (0, buffer length); for the zero-byte buffer
\* Contains("") is true and Contains("x") is false.
C5_Degenerate ==
    (Built /\ NLsFrom(0) = {}) =>
        /\ num_of_buckets = 1
        /\ clines = 1
        /\ cclist[0] = [fpos |-> 0, len |-> Len(dict)]
        /\ (Len(dict) = 0 =>
               htable_lookup(<<>>) /\ ~htable_lookup(<<120>>))

\* Two terminator-ended lines with different bytes in the same bucket.
Collide(L, M) ==
    /\ Bytes(L) # Bytes(M)
    /\ hash(Bytes(L)) = hash(Bytes(M))

\* C6: once the build has finished, Contains returns true for every
\* terminator-ended line that shares its bucket with a different line.
C6_CollisionsKeepEntries ==
    Built => \A L \in TermLines, M \in TermLines :
                Collide(L, M) => htable_lookup(Bytes(L)) /\ htable_lookup(Bytes(M))

\* C6 witness: a built index in which two different lines collide, the
\* later one being inserted on top of the earlier one.
C6_Witness ==
    /\ Built
    /\ \E L \in TermLines, M \in TermLines :
          /\ Collide(L, M)
          /\ L.fpos < M.fpos
          /\ \E p \in 0..(clines - 1) : cclist[p] = L
          /\ htable_lookup(Bytes(L))

\* C7: while the index is being served, no step changes htable, cclist or
\* dict, the freed collision list stays untouched, and any two answers
\* printed for the same request agree.
C7_LookupsReadOnly ==
    [][(Built /\ Built') =>
          /\ htable' = htable /\ cclist' = cclist /\ dict' = dict
          /\ clist' = clist
          /\ \A k \in DOMAIN out', l \in DOMAIN out' :
                out'[k].req = out'[l].req => out'[k].yes = out'[l].yes]_vars

\* C7 witness: the same request has been answered twice, once YES.
C7_Witness ==
    /\ Built
    /\ \E k \in DOMAIN out, l \in DOMAIN out :
          k < l /\ out[k].req = out[l].req /\ out[k].yes

\* C8: htable[0] = 0, htable is non-decreasing, the entries compaction
\* wrote in bucket b's range are exactly the inserted lines hashing to b,
\* and within a bucket the line with the larger offset comes first.
C8_Layout ==
    Built =>
      /\ htable[0] = 0
      /\ \A b \in 0..(num_of_buckets - 1) :
            /\ htable[b] <= htable[b + 1]
            /\ {cclist[p] : p \in WrittenIn(b)} =
                  {L \in TermLines : hash(Bytes(L)) = b}
            /\ \A p \in WrittenIn(b), q \in WrittenIn(b) :
                  p < q => cclist[p].fpos > cclist[q].fpos

\* C8 witness: a built index with a bucket of two entries after a
\* non-empty bucket.
C8_Witness ==
    /\ Built
    /\ \E b \in 1..(num_of_buckets - 1) :
          /\ htable[b] > 0
          /\ Cardinality(WrittenIn(b)) >= 2

\* C9 (as stated): every query's bucket index is below num_of_buckets, the
\* slots a lookup scans were all written by compaction, and no bucket's
\* range covers a slot that was never written.
C9_ReadsInitialised ==
    Built =>
      /\ \A q \in Queries :
            /\ hash(q) < num_of_buckets
            /\ \A p \in ScannedSlots(q) : p < clines
      /\ \A b \in 0..(num_of_buckets - 1) :
            \A p \in htable[b]..(htable[b + 1] - 1) : p < clines

\* C10 (as stated): when the loop has stopped, the requests answered are
\* the lines read, each once and in order (the line that stopped the loop
\* excepted), and the loop was left early only on the line "exit\n".
C10_RequestLoop ==
    pc = "cleanup" =>
      /\ [k \in DOMAIN out |-> out[k].req] =
            (IF broke THEN SubSeq(reads, 1, Len(reads) - 1) ELSE reads)
      /\ broke => (reads # <<>> /\ reads[Len(reads)] = ExitCmd
                      /\ req_buf = ExitCmd)

====
